---- MODULE Spec2Model ----
(***************************************************************************)
(* Wallet-provider pages (MetaMask, Para, Privy, Dynamic) wired to the     *)
(* Biconomy MEE client: the signer adapters handed to the account factory, *)
(* the MEE initialisation of each page and its executeTransfers handler.   *)
(***************************************************************************)
EXTENDS Integers, Sequences, FiniteSets, TLC

\* ------------------------------------------------------------------ bounds
MaxMsgLen == 2
MaxRawLen == 2
MaxRecipients == 2
MaxInits == 2
MaxRuns == 1

\* ------------------------------------------------------- program constants
TRANSFER_AMOUNT == 100000

Null == "null"
Addrs == {"0xA", "0xB"}
Pages == {"metamask", "para", "privy", "dynamic"}
AdapterPages == {"privy", "dynamic"}

SeqsUpTo(S, n) == UNION {[1..k -> S] : k \in 0..n}
Range(s) == {s[i] : i \in DOMAIN s}

\* ------------------------------------------------------------ messages
\* viem's SignableMessage: a string, or {raw: Hex | ByteArray}
MsgChars == {"a", " "}
ByteVals == {0, 10, 255}
MsgString(s) == [kind |-> "string", str |-> s, bytes |-> <<>>]
MsgRawHex(s) == [kind |-> "rawHex", str |-> s, bytes |-> <<>>]
MsgRawBytes(b) == [kind |-> "rawBytes", str |-> <<>>, bytes |-> b]
MsgOther == [kind |-> "other", str |-> <<>>, bytes |-> <<>>]
NoMsg == [kind |-> "none", str |-> <<>>, bytes |-> <<>>]

StringMessages == {MsgString(s) : s \in SeqsUpTo(MsgChars, MaxMsgLen)}
RawBytesMessages == {MsgRawBytes(b) : b \in SeqsUpTo(ByteVals, MaxRawLen)}
RawHexMessages == {MsgRawHex(<<"0", "x", "0", "a">>)}
Messages == StringMessages \cup RawBytesMessages \cup RawHexMessages

HexChars == <<"0", "1", "2", "3", "4", "5", "6", "7", "8", "9", "a", "b", "c", "d", "e", "f">>

ByteToHex(b) == <<HexChars[(b \div 16) + 1], HexChars[(b % 16) + 1]>>

RECURSIVE BufferToHex(_)
BufferToHex(raw) ==
  IF raw = <<>> THEN <<>> ELSE ByteToHex(Head(raw)) \o BufferToHex(Tail(raw))

MutMessageToSignTrimmed(message) ==
  IF message.kind = "string" THEN SelectSeq(message.str, LAMBDA c : c # " ")
  ELSE IF message.kind = "rawHex" THEN message.str
  ELSE IF message.kind = "rawBytes" THEN <<"0", "x">> \o BufferToHex(message.bytes)
  ELSE <<"[object Object]">>

MutMessageToSignNoPrefix(message) ==
  IF message.kind = "string" THEN message.str
  ELSE IF message.kind = "rawHex" THEN message.str
  ELSE IF message.kind = "rawBytes" THEN BufferToHex(message.bytes)
  ELSE <<"[object Object]">>

\* Privy signMessage: the normalisation of the message before personal_sign
MessageToSign(message) ==
  IF message.kind = "string" THEN message.str
  ELSE IF message.kind = "rawHex" THEN message.str
  ELSE IF message.kind = "rawBytes" THEN <<"0", "x">> \o BufferToHex(message.bytes)
  ELSE <<"[object Object]">>

\* ------------------------------------------------------------ typed data
\* JSON values: t is the JavaScript type of the value
JBig(n) == [t |-> "bigint", n |-> n, s |-> <<>>, kids |-> <<>>]
JNum(n) == [t |-> "number", n |-> n, s |-> <<>>, kids |-> <<>>]
JStr(s) == [t |-> "string", n |-> 0, s |-> s, kids |-> <<>>]
JObj(kids) == [t |-> "object", n |-> 0, s |-> <<>>, kids |-> kids]
JArr(kids) == [t |-> "array", n |-> 0, s |-> <<>>, kids |-> kids]
JNull == [t |-> "null", n |-> 0, s |-> <<>>, kids |-> <<>>]
Field(k, v) == [k |-> k, v |-> v]

Digits == <<"0", "1", "2", "3", "4", "5", "6", "7", "8", "9">>

\* BigInt.prototype.toString(): base 10
RECURSIVE Decimal(_)
Decimal(n) ==
  IF n < 0 THEN <<"-">> \o Decimal(-n)
  ELSE IF n < 10 THEN <<Digits[n + 1]>>
  ELSE Decimal(n \div 10) \o <<Digits[(n % 10) + 1]>>

RECURSIVE Hexadecimal(_)
Hexadecimal(n) ==
  IF n < 0 THEN <<"-">> \o Hexadecimal(-n)
  ELSE IF n < 16 THEN <<HexChars[n + 1]>>
  ELSE Hexadecimal(n \div 16) \o <<HexChars[(n % 16) + 1]>>

MutReplacerHex(key, value) ==
  IF value.t = "bigint" THEN JStr(Hexadecimal(value.n)) ELSE value

\* the replacer handed to JSON.stringify
replacer(key, value) ==
  IF value.t = "bigint" THEN JStr(Decimal(value.n)) ELSE value

TypeError == "#TypeError"
Quote(s) == <<"\"">> \o s \o <<"\"">>

\* JSON.stringify(value, replacer): SerializeJSONProperty of ECMA-262, the
\* replacer applied to every property (the root included) before it is written
RECURSIVE SerializeJSONProperty(_, _)
RECURSIVE SerializeKids(_, _)
SerializeJSONProperty(key, val) ==
  LET value == replacer(key, val) IN
  CASE value.t = "string" -> Quote(value.s)
    [] value.t = "number" -> Decimal(value.n)
    [] value.t = "null" -> <<"null">>
    [] value.t = "bigint" -> <<TypeError>>
    [] value.t = "object" -> <<"{">> \o SerializeKids(value.kids, TRUE) \o <<"}">>
    [] value.t = "array" -> <<"[">> \o SerializeKids(value.kids, FALSE) \o <<"]">>

SerializeKids(kids, named) ==
  IF kids = <<>> THEN <<>>
  ELSE (IF named THEN Quote(<<Head(kids).k>>) \o <<":">> ELSE <<>>)
       \o SerializeJSONProperty(Head(kids).k, Head(kids).v)
       \o (IF Len(kids) > 1 THEN <<",">> ELSE <<>>)
       \o SerializeKids(Tail(kids), named)

JSONStringify(value) == SerializeJSONProperty("", value)

\* typed-data payloads {domain: {chainId}, primaryType, message: {amount, list: [..]}}
BigVals == {0, 120, -35}
LeafValues == {JBig(n) : n \in BigVals} \cup {JNum(7), JStr(<<"7">>)}
ChainIdValues == {JNum(8453), JBig(8453)}
TypedData(c, x, y) ==
  JObj(<<Field("domain", JObj(<<Field("chainId", c)>>)),
         Field("primaryType", JStr(<<"P">>)),
         Field("message", JObj(<<Field("amount", x), Field("list", JArr(<<Field("0", y)>>))>>))>>)
TypedDatas == {TypedData(c, x, y) : c \in ChainIdValues, x \in LeafValues, y \in LeafValues}

\* ------------------------------------------------------ provider transport
Sig(by, id) == [ok |-> TRUE, by |-> by, id |-> id, err |-> ""]
Err(msg) == [ok |-> FALSE, by |-> Null, id |-> 0, err |-> msg]
NoResult == [ok |-> FALSE, by |-> Null, id |-> 0, err |-> "none"]
SigIds == {1, 2}

\* What the provider's signing transport can answer: it signs with the key of
\* its current session or fails.  It is not code of this repository; whether it
\* refuses a request naming another address is its own choice.
ProviderResponses(session, account) ==
  IF session = Null THEN {Err("SessionExpired")}
  ELSE IF session = account
    THEN {Sig(session, i) : i \in SigIds} \cup {Err("SigningRejected")}
  ELSE {Sig(session, i) : i \in SigIds} \cup {Err("SessionExpired")}

Req(method, account, msg, text, obj) ==
  [method |-> method, account |-> account, msg |-> msg, text |-> text, obj |-> obj]
NoReq == Req("none", Null, NoMsg, <<>>, JNull)

\* ------------------------------------------------------------- the signers
\* address: the address captured when the signer was created.  On the Dynamic
\* page the wallet client comes from the same primaryWallet as the address, so
\* walletClient.account is that address.
Signer(kind, address) == [kind |-> kind, address |-> address]

SignMessageRequest(signer, message) ==
  CASE signer.kind = "privy" ->
         Req("personal_sign", signer.address, MsgString(MessageToSign(message)), <<>>, JNull)
    [] signer.kind = "dynamic" ->
         Req("walletClient.signMessage", signer.address, message, <<>>, JNull)
    [] OTHER ->
         Req("account.signMessage", signer.address, message, <<>>, JNull)

SignTypedDataRequest(signer, typedData) ==
  CASE signer.kind = "privy" ->
         Req("eth_signTypedData_v4", signer.address, NoMsg, JSONStringify(typedData), JNull)
    [] signer.kind = "dynamic" ->
         Req("walletClient.signTypedData", signer.address, NoMsg, <<>>, typedData)
    [] OTHER ->
         Req("account.signTypedData", signer.address, NoMsg, <<>>, typedData)

\* a request whose serialisation threw is never sent
Sent(req) == TypeError \notin Range(req.text)

\* what signMessage / signTypedData return: the provider's answer
SignResult(req, resp) == IF Sent(req) THEN resp ELSE Err("TypeError")

Unsupported == Err("signTransaction not supported - use MEE for transactions")

MutSignTransactionForwards(signer) == TRUE

\* signTransaction: the toAccount adapters throw; the Para account and the
\* MetaMask wallet client are the providers' own accounts
SignTransactionForwards(signer) == signer.kind \notin AdapterPages

SignTransactionRequest(signer) ==
  IF SignTransactionForwards(signer)
    THEN Req("account.signTransaction", signer.address, NoMsg, <<>>, JNull)
    ELSE NoReq

SignTransactionResult(signer, resp) ==
  IF SignTransactionForwards(signer) THEN resp ELSE Unsupported

\* -------------------------------------------------------------- page state
VARIABLES
  page,          \* the page that is mounted
  ethereum,      \* MetaMask page: window.ethereum is defined
  session,       \* the address the provider is authenticated for, or Null
  connected,     \* authenticated / isConnected / !!user
  wallet,        \* embeddedWallet?.address / wallet?.address / primaryWallet?.address
  isEth,         \* Dynamic page: isEthereumWallet(primaryWallet)
  account,       \* MetaMask page: useState account
  walletClient,  \* MetaMask page: useState walletClient is set
  orchestrator,  \* useState orchestrator: Null, or the address of its signer
  meeClient,     \* useState meeClient: Null, or the address of its account's signer
  status,        \* useState status
  meeScanLink,   \* useState meeScanLink is set
  recipients,    \* useState recipients
  inits,         \* initMee / connectAndInit calls in flight
  runs,          \* executeTransfers calls in flight
  lastCall,      \* the call of a signer method the last step made, and what came of it
  lastQuote,     \* the getFusionQuote request the last step made
  lastFailure,   \* the asynchronous step that failed in the last step, and whether its handler set status
  envKey,        \* the environment key the page requires is present
  view,          \* what the page renders: the wallet component, the configuration panel, nothing
  balance,       \* useState balance, with the address it was fetched for
  intervals,     \* the active setInterval timers, each with the address its fetchBalance closed over
  fetches,       \* the addresses a balance fetch is in flight for
  lastFetch,     \* the address the last step started a balance fetch for
  lastAlert,     \* the text of the alert() the last step raised
  loginForm      \* Privy page: useState email, code, codeSent, and the form's calls in flight

vars == <<page, ethereum, session, connected, wallet, isEth, account, walletClient,
          orchestrator, meeClient, status, meeScanLink, recipients, inits, runs,
          lastCall, lastQuote, lastFailure, envKey, view, balance, intervals, fetches,
          lastFetch, lastAlert, loginForm>>

pageVars == <<page, ethereum, envKey, view>>
authVars == <<session, connected, wallet, isEth>>
meeVars == <<orchestrator, meeClient>>

NoCall == [op |-> "none", signer |-> Signer("none", Null), session |-> Null,
           message |-> NoMsg, typedData |-> JNull, request |-> NoReq,
           resp |-> NoResult, result |-> NoResult]
NoQuote == [instructions |-> <<>>, trigger |-> 0, signer |-> Null, wallet |-> Null,
            recipients |-> <<>>]
NoFailure == [step |-> "none", shown |-> FALSE]

\* lastCall, lastQuote and lastFailure describe what the last step did
NoSignerCall == lastCall' = NoCall
NoQuoteRequest == lastQuote' = NoQuote
NoFailedStep == lastFailure' = NoFailure
NoAlert == lastAlert' = Null
\* a step that is no event of the Privy login form
NoFormStep == UNCHANGED loginForm

\* the wallet component of the page is mounted
Mounted == view = "wallet"

\* -------------------------------------------------------------- balance polling
BalanceAmounts == {0, 5}
Balance(a, amount) == [addr |-> a, amount |-> amount]
NoBalance == Balance(Null, 0)

\* a step in which no balance effect runs, no timer fires and no fetch returns
NoBalanceStep == UNCHANGED <<balance, intervals, fetches>> /\ lastFetch' = Null

MutCleanupKeeps(timers) == timers

\* return () => clearInterval(interval): the clean-up of the last effect run
Cleanup(timers) ==
  IF timers = <<>> THEN <<>> ELSE SubSeq(timers, 1, Len(timers) - 1)

\* fetchBalance() of a closure holding wallet address a, up to its await
FetchBalance(a) ==
  IF a = Null THEN UNCHANGED fetches /\ lastFetch' = Null
  ELSE fetches' = fetches \cup {a} /\ lastFetch' = a

\* the balance useEffect after a render in which the wallet address became w:
\* the clean-up of the run before, fetchBalance(), setInterval(fetchBalance)
RunBalanceEffect(w) ==
  IF page = "metamask" \/ w = wallet
    THEN NoBalanceStep
    ELSE /\ intervals' = Append(Cleanup(intervals), w)
         /\ FetchBalance(w)
         /\ UNCHANGED balance

RemoveAt(s, i) == SubSeq(s, 1, i - 1) \o SubSeq(s, i + 1, Len(s))

\* -------------------------------------------------------------- recipients
RecipientChars == {"x", " "}
RecipientInputs == SeqsUpTo(RecipientChars, 1)

RECURSIVE TrimStart(_)
TrimStart(r) == IF r # <<>> /\ Head(r) = " " THEN TrimStart(Tail(r)) ELSE r
RECURSIVE TrimEnd(_)
TrimEnd(r) ==
  IF r # <<>> /\ r[Len(r)] = " " THEN TrimEnd(SubSeq(r, 1, Len(r) - 1)) ELSE r
\* String.prototype.trim
Trim(r) == TrimEnd(TrimStart(r))

\* recipients.filter((r) => r.trim().length > 0); on the MetaMask page
\* recipients.filter(r => r.length > 0)
IsValidRecipient(r) ==
  IF page = "metamask" THEN Len(r) > 0 ELSE Len(Trim(r)) > 0

ValidRecipients(rs) == SelectSeq(rs, IsValidRecipient)

handleRecipientChange ==
  \E index \in DOMAIN recipients, value \in RecipientInputs :
    /\ Mounted
    /\ recipients' = [recipients EXCEPT ![index] = value]
    /\ NoBalanceStep
    /\ NoAlert
    /\ NoFormStep
    /\ UNCHANGED <<pageVars, authVars, account, walletClient, meeVars, status,
                   meeScanLink, inits, runs>>
    /\ NoSignerCall /\ NoQuoteRequest /\ NoFailedStep

addRecipient ==
  /\ Mounted
  /\ Len(recipients) < MaxRecipients
  /\ recipients' = Append(recipients, <<>>)
  /\ NoBalanceStep
  /\ NoAlert
  /\ NoFormStep
  /\ UNCHANGED <<pageVars, authVars, account, walletClient, meeVars, status,
                 meeScanLink, inits, runs>>
  /\ NoSignerCall /\ NoQuoteRequest /\ NoFailedStep

MutRecipientsWithoutUnguarded(rs, index) == RemoveAt(rs, index)

\* if (recipients.length > 1) setRecipients(recipients.filter((_, i) => i !== index))
RecipientsWithout(rs, index) ==
  IF Len(rs) > 1 THEN RemoveAt(rs, index) ELSE rs

removeRecipient ==
  \E index \in DOMAIN recipients :
    /\ Mounted
    /\ recipients' = RecipientsWithout(recipients, index)
    /\ NoBalanceStep
    /\ NoAlert
    /\ NoFormStep
    /\ UNCHANGED <<pageVars, authVars, account, walletClient, meeVars, status,
                   meeScanLink, inits, runs>>
    /\ NoSignerCall /\ NoQuoteRequest /\ NoFailedStep

\* ------------------------------------------------------- MEE initialisation
InitTask(pc, w, signer) == [pc |-> pc, wallet |-> w, signer |-> signer]

MutFirstInitPcNoSwitch == "getSigner"

\* the first await of initMee: the chain switch on the Privy and Dynamic pages
FirstInitPc == IF page \in {"privy", "dynamic"} THEN "switchChain" ELSE "getSigner"

Failure(step, shown) == [step |-> step, shown |-> shown]

\* the useEffect of initMee, run after a render in which wallet address w and
\* connection flag c are new: the part of initMee before its first await
RunInitEffect(w, c, eth) ==
  IF w = Null \/ (page = "para" /\ ~c) \/ meeClient # Null
    THEN (UNCHANGED <<inits>> /\ NoFailedStep)
  ELSE IF page = "dynamic" /\ ~eth
    THEN /\ lastFailure' = Failure("init.notEthereumWallet", FALSE)
         /\ UNCHANGED inits
  ELSE /\ Len(inits) < MaxInits
       /\ inits' = Append(inits, InitTask(FirstInitPc, w, Null))
       /\ NoFailedStep

\* the provider reports a login
Login ==
  \E a \in Addrs, hasWallet \in BOOLEAN, eth \in BOOLEAN :
    LET w == IF hasWallet THEN a ELSE Null IN
    /\ Mounted
    /\ page # "metamask"
    /\ ~connected
    /\ (page # "dynamic" => eth)
    /\ session' = a
    /\ connected' = TRUE
    /\ wallet' = w
    /\ isEth' = eth
    /\ RunInitEffect(w, TRUE, eth)
    /\ RunBalanceEffect(w)
    /\ NoAlert
    /\ NoFormStep
    /\ UNCHANGED <<pageVars, account, walletClient, meeVars, status, meeScanLink,
                   recipients, runs>>
    /\ NoSignerCall /\ NoQuoteRequest

\* the wallet of the logged-in user becomes available to the page
WalletReady ==
  /\ Mounted
  /\ page # "metamask"
  /\ connected
  /\ wallet = Null
  /\ wallet' = session
  /\ RunInitEffect(session, TRUE, isEth)
  /\ RunBalanceEffect(session)
  /\ NoAlert
  /\ NoFormStep
  /\ UNCHANGED <<pageVars, session, connected, isEth, account, walletClient, meeVars,
                 status, meeScanLink, recipients, runs>>
  /\ NoSignerCall /\ NoQuoteRequest

\* Privy logout, Para disconnect, Dynamic handleLogOut
Logout ==
  /\ Mounted
  /\ page # "metamask"
  /\ connected
  /\ session' = Null
  /\ connected' = FALSE
  /\ wallet' = Null
  /\ RunBalanceEffect(Null)
  /\ NoAlert
  /\ NoFormStep
  /\ UNCHANGED <<pageVars, isEth, account, walletClient, meeVars, status, meeScanLink,
                 recipients, inits, runs>>
  /\ NoSignerCall /\ NoQuoteRequest /\ NoFailedStep

\* the user selects another wallet / account at the provider
WalletChange ==
  \E a \in Addrs :
    /\ Mounted
    /\ a # session
    /\ RunBalanceEffect(a)
    /\ NoAlert
    /\ \/ /\ page \in {"para", "dynamic"}
          /\ connected
          /\ wallet # Null
          /\ session' = a
          /\ wallet' = a
          /\ RunInitEffect(a, TRUE, isEth)
       \/ /\ page = "metamask"
          /\ ethereum
          /\ session' = a
          /\ (UNCHANGED <<wallet, inits>> /\ NoFailedStep)
    /\ NoFormStep
    /\ UNCHANGED <<pageVars, connected, isEth, account, walletClient, meeVars, status,
                   meeScanLink, recipients, runs>>
    /\ NoSignerCall /\ NoQuoteRequest

MutNoWalletDetectedConnects ==
  /\ lastAlert' = "MetaMask not detected"
  /\ walletClient' = TRUE
  /\ UNCHANGED inits

\* if (typeof window.ethereum === 'undefined') { alert(...); return; }
NoWalletDetected ==
  /\ lastAlert' = "MetaMask not detected"
  /\ UNCHANGED <<walletClient, inits>>

\* MetaMask page: click on Connect Wallet, shown while account is null
connectAndInit ==
  /\ Mounted
  /\ page = "metamask"
  /\ account = Null
  /\ IF ~ethereum
       THEN NoWalletDetected
       ELSE /\ Len(inits) < MaxInits
            /\ walletClient' = TRUE
            /\ inits' = Append(inits, InitTask("getSigner", Null, Null))
            /\ NoAlert
  /\ NoBalanceStep
  /\ NoFormStep
  /\ UNCHANGED <<pageVars, authVars, account, meeVars, status, meeScanLink, recipients,
                 runs>>
  /\ NoSignerCall /\ NoQuoteRequest /\ NoFailedStep

SetsStatus(text) == [set |-> TRUE, text |-> text]
KeepsStatus == [set |-> FALSE, text |-> ""]

\* the catch block of initMee / connectAndInit
InitCatch ==
  IF page \in {"para", "dynamic"} THEN SetsStatus("Error initializing MEE: msg")
  ELSE KeepsStatus

StatusAfter(h) == IF h.set THEN h.text ELSE status

MutInitFailsRetries(i, step) ==
  /\ inits' = [inits EXCEPT ![i].pc = FirstInitPc]
  /\ status' = StatusAfter(InitCatch)
  /\ lastFailure' = Failure(step, InitCatch.set)
  /\ UNCHANGED <<account, meeVars>>

\* an await of initMee / connectAndInit rejects: the catch block runs and the
\* call ends
InitFails(i, step) ==
  /\ inits' = RemoveAt(inits, i)
  /\ status' = StatusAfter(InitCatch)
  /\ lastFailure' = Failure(step, InitCatch.set)
  /\ UNCHANGED <<account, meeVars>>

\* the error wallet_switchEthereumChain was rejected with
SwitchError(outcome) ==
  IF outcome = "fail4902" THEN "switchChain4902" ELSE "switchChain"

MutAddBaseAlwaysAdds(outcome) ==
  IF outcome = "ok" THEN "done" ELSE "addChain"

\* addBaseToWallet after its switch request: if (switchError.code === 4902)
\* the add request is made, else throw switchError
AddBaseAfterSwitch(outcome) ==
  CASE outcome = "ok" -> "done"
    [] outcome = "fail4902" -> "addChain"
    [] OTHER -> "rethrow"

\* await switchChain(base.id) / switchNetwork(base.id) / addBaseToWallet()
InitSwitchChain ==
  \E i \in DOMAIN inits, outcome \in {"ok", "fail", "fail4902"} :
    /\ inits[i].pc = "switchChain"
    /\ CASE outcome = "ok" ->
              /\ inits' = [inits EXCEPT ![i].pc =
                             IF page = "metamask" THEN "nexus" ELSE "getSigner"]
              /\ (UNCHANGED <<status, account, meeVars>> /\ NoFailedStep)
         [] outcome # "ok" /\ page = "metamask" ->
              IF AddBaseAfterSwitch(outcome) = "addChain"
                THEN /\ inits' = [inits EXCEPT ![i].pc = "addChain"]
                     /\ lastFailure' = Failure("init." \o SwitchError(outcome), FALSE)
                     /\ UNCHANGED <<status, account, meeVars>>
                ELSE InitFails(i, "init." \o SwitchError(outcome))
         [] outcome = "fail" /\ page # "metamask" ->
              IF page = "dynamic"
                THEN /\ inits' = [inits EXCEPT ![i].pc = "getSigner"]
                     /\ lastFailure' = Failure("init.switchNetwork", FALSE)
                     /\ UNCHANGED <<status, account, meeVars>>
                ELSE InitFails(i, "init.switchChain")
         [] OTHER -> FALSE
    /\ NoBalanceStep
    /\ NoAlert
    /\ NoFormStep
    /\ UNCHANGED <<pageVars, authVars, walletClient, meeScanLink, recipients, runs>>
    /\ NoSignerCall /\ NoQuoteRequest

\* MetaMask page: wallet_addEthereumChain after a 4902
InitAddChain ==
  \E i \in DOMAIN inits, ok \in BOOLEAN :
    /\ inits[i].pc = "addChain"
    /\ IF ok
         THEN /\ inits' = [inits EXCEPT ![i].pc = "nexus"]
              /\ (UNCHANGED <<status, account, meeVars>> /\ NoFailedStep)
         ELSE InitFails(i, "init.addChain")
    /\ NoBalanceStep
    /\ NoAlert
    /\ NoFormStep
    /\ UNCHANGED <<pageVars, authVars, walletClient, meeScanLink, recipients, runs>>
    /\ NoSignerCall /\ NoQuoteRequest

\* the address the new signer is bound to: Privy and Dynamic take the address
\* of the wallet the effect closed over, createParaAccount(para) and
\* requestAddresses() the provider's current one
CapturedAddress(task) ==
  IF page \in {"privy", "dynamic"} THEN task.wallet ELSE session

\* await getEthereumProvider() / getWalletClient() / createParaAccount(para) /
\* requestAddresses(), then the signer is built
InitGetSigner ==
  \E i \in DOMAIN inits, ok \in BOOLEAN :
    /\ inits[i].pc = "getSigner"
    /\ IF ok /\ CapturedAddress(inits[i]) # Null
         THEN /\ inits' = [inits EXCEPT
                   ![i].pc = IF page = "metamask" THEN "switchChain" ELSE "nexus",
                   ![i].signer = CapturedAddress(inits[i])]
              /\ account' = IF page = "metamask" THEN CapturedAddress(inits[i]) ELSE account
              /\ (UNCHANGED <<status, meeVars>> /\ NoFailedStep)
         ELSE InitFails(i, "init.getSigner")
    /\ NoBalanceStep
    /\ NoAlert
    /\ NoFormStep
    /\ UNCHANGED <<pageVars, authVars, walletClient, meeScanLink, recipients, runs>>
    /\ NoSignerCall /\ NoQuoteRequest

MutNexusStoredLate(multiAccount) == orchestrator

\* setOrchestrator(multiAccount), before createMeeClient is awaited
NexusStored(multiAccount) == multiAccount

\* await toMultichainNexusAccount({..., signer}); setOrchestrator(multiAccount)
InitNexus ==
  \E i \in DOMAIN inits, ok \in BOOLEAN :
    /\ inits[i].pc = "nexus"
    /\ IF ok
         THEN /\ inits' = [inits EXCEPT ![i].pc = "client"]
              /\ orchestrator' = NexusStored(inits[i].signer)
              /\ (UNCHANGED <<status, account, meeClient>> /\ NoFailedStep)
         ELSE InitFails(i, "init.toMultichainNexusAccount")
    /\ NoBalanceStep
    /\ NoAlert
    /\ NoFormStep
    /\ UNCHANGED <<pageVars, authVars, walletClient, meeScanLink, recipients, runs>>
    /\ NoSignerCall /\ NoQuoteRequest

\* await createMeeClient({account: multiAccount}); setMeeClient(mee)
InitClient ==
  \E i \in DOMAIN inits, ok \in BOOLEAN :
    /\ inits[i].pc = "client"
    /\ IF ok
         THEN /\ inits' = RemoveAt(inits, i)
              /\ meeClient' = inits[i].signer
              /\ (UNCHANGED <<status, account, orchestrator>> /\ NoFailedStep)
         ELSE InitFails(i, "init.createMeeClient")
    /\ NoBalanceStep
    /\ NoAlert
    /\ NoFormStep
    /\ UNCHANGED <<pageVars, authVars, walletClient, meeScanLink, recipients, runs>>
    /\ NoSignerCall /\ NoQuoteRequest

\* ------------------------------------------------------------ signer calls
SignMessageCall(signer, message, resp) ==
  LET req == SignMessageRequest(signer, message) IN
  [op |-> "signMessage", signer |-> signer, session |-> session, message |-> message,
   typedData |-> JNull, request |-> req, resp |-> resp, result |-> SignResult(req, resp)]

SignTypedDataCall(signer, typedData, resp) ==
  LET req == SignTypedDataRequest(signer, typedData) IN
  [op |-> "signTypedData", signer |-> signer, session |-> session, message |-> NoMsg,
   typedData |-> typedData, request |-> req,
   resp |-> IF Sent(req) THEN resp ELSE NoResult, result |-> SignResult(req, resp)]

SignTransactionCall(signer, resp) ==
  [op |-> "signTransaction", signer |-> signer, session |-> session, message |-> NoMsg,
   typedData |-> JNull, request |-> SignTransactionRequest(signer),
   resp |-> IF SignTransactionForwards(signer) THEN resp ELSE NoResult,
   result |-> SignTransactionResult(signer, resp)]

\* the account factory's client calls a method of the signer it was handed
signMessage ==
  \E message \in Messages, resp \in ProviderResponses(session, meeClient) :
    /\ meeClient # Null
    /\ lastCall' = SignMessageCall(Signer(page, meeClient), message, resp)
    /\ NoBalanceStep
    /\ NoAlert
    /\ NoFormStep
    /\ UNCHANGED <<pageVars, authVars, account, walletClient, meeVars, status,
                   meeScanLink, recipients, inits, runs>>
    /\ NoQuoteRequest /\ NoFailedStep

signTypedData ==
  \E typedData \in TypedDatas, resp \in ProviderResponses(session, meeClient) :
    /\ meeClient # Null
    /\ lastCall' = SignTypedDataCall(Signer(page, meeClient), typedData, resp)
    /\ NoBalanceStep
    /\ NoAlert
    /\ NoFormStep
    /\ UNCHANGED <<pageVars, authVars, account, walletClient, meeVars, status,
                   meeScanLink, recipients, inits, runs>>
    /\ NoQuoteRequest /\ NoFailedStep

signTransaction ==
  \E resp \in ProviderResponses(session, meeClient) :
    /\ meeClient # Null
    /\ lastCall' = SignTransactionCall(Signer(page, meeClient), resp)
    /\ NoBalanceStep
    /\ NoAlert
    /\ NoFormStep
    /\ UNCHANGED <<pageVars, authVars, account, walletClient, meeVars, status,
                   meeScanLink, recipients, inits, runs>>
    /\ NoQuoteRequest /\ NoFailedStep

\* --------------------------------------------------------- executeTransfers
\* orch, mee, recipients: the state the handler closed over when it was clicked
\* fusionQuote, hash: the locals of the run, 0 while unset; executing, waiting:
\* the quote handed to executeFusionQuote and the hash handed to
\* waitForSupertransactionReceipt
RunTask(pc, orch, mee, rs) ==
  [pc |-> pc, orch |-> orch, mee |-> mee, recipients |-> rs,
   fusionQuote |-> 0, executing |-> 0, hash |-> 0, waiting |-> 0]

\* the quotes and hashes the MEE client can return
QuoteIds == {1, 2}
HashIds == {1, 2}

MutExecuteArgOther(fusionQuote) == 1

\* meeClient.executeFusionQuote({ fusionQuote })
ExecuteArg(fusionQuote) == fusionQuote

\* meeClient.waitForSupertransactionReceipt({ hash })
ReceiptArg(hash) == hash

\* the dashboard is rendered and the Pay Now button is enabled
PayNowEnabled ==
  /\ Mounted
  /\ meeClient # Null
  /\ IF page = "metamask" THEN account # Null ELSE connected

NotInitialized ==
  \/ orchestrator = Null
  \/ meeClient = Null
  \/ IF page = "metamask" THEN account = Null ELSE wallet = Null

\* the check of validRecipients.length made before the first await; the MetaMask
\* page makes it after addBaseToWallet
HasValidRecipients == page = "metamask" \/ ValidRecipients(recipients) # <<>>

\* a click on Pay Now passes the handler's checks and goes on to its first await
StartsRun == PayNowEnabled /\ ~NotInitialized /\ HasValidRecipients

MutReportNotInitializedSilent ==
  /\ UNCHANGED <<status, runs>>
  /\ NoAlert

\* if (!orchestrator || !meeClient || !wallet) { setStatus / alert; return; }
ReportNotInitialized ==
  /\ status' = IF page = "metamask" THEN status
                ELSE "Error: MEE client not initialized. Please wait..."
  /\ lastAlert' = IF page = "metamask" THEN "Account not initialized" ELSE Null
  /\ UNCHANGED runs

\* click on Pay Now: executeTransfers up to its first await
executeTransfers ==
  /\ PayNowEnabled
  /\ IF NotInitialized
       THEN ReportNotInitialized
     ELSE IF ~HasValidRecipients
       THEN /\ status' = "Error: Please add at least one recipient."
            /\ UNCHANGED runs
            /\ NoAlert
     ELSE /\ Len(runs) < MaxRuns
          /\ NoAlert
          /\ status' = CASE page = "metamask" -> status
                         [] page = "para" -> "Building transfer instructions..."
                         [] OTHER -> "Preparing transaction..."
          /\ runs' = Append(runs, RunTask(IF page = "para" THEN "build" ELSE "switchChain",
                                          orchestrator, meeClient, recipients))
  /\ NoBalanceStep
  /\ NoFormStep
  /\ UNCHANGED <<pageVars, authVars, account, walletClient, meeVars, meeScanLink,
                 recipients, inits>>
  /\ NoSignerCall /\ NoQuoteRequest /\ NoFailedStep

MutRunCatchSilent(msg) == KeepsStatus

\* the catch block of executeTransfers
RunCatch(msg) ==
  IF page = "metamask" THEN KeepsStatus ELSE SetsStatus(msg)

RunFails(i, step, msg) ==
  /\ runs' = RemoveAt(runs, i)
  /\ status' = StatusAfter(RunCatch(msg))
  /\ lastFailure' = Failure(step, RunCatch(msg).set)

\* MetaMask page, after addBaseToWallet: the recipients are filtered
RunAfterSwitch(i) ==
  IF ValidRecipients(runs[i].recipients) = <<>>
    THEN runs' = RemoveAt(runs, i)
    ELSE runs' = [runs EXCEPT ![i].pc = "build"]

\* await switchChain(base.id) / switchNetwork(base.id) / addBaseToWallet()
RunSwitchChain ==
  \E i \in DOMAIN runs, outcome \in {"ok", "fail", "fail4902"} :
    /\ runs[i].pc = "switchChain"
    /\ IF page = "metamask"
         THEN CASE AddBaseAfterSwitch(outcome) = "done" ->
                     /\ RunAfterSwitch(i)
                     /\ (UNCHANGED <<status>> /\ NoFailedStep)
                [] AddBaseAfterSwitch(outcome) = "addChain" ->
                     /\ runs' = [runs EXCEPT ![i].pc = "addChain"]
                     /\ lastFailure' = Failure("transfer." \o SwitchError(outcome), FALSE)
                     /\ UNCHANGED <<status>>
                [] OTHER ->
                     RunFails(i, "transfer." \o SwitchError(outcome), "Error: msg")
         ELSE /\ outcome # "fail4902"
              /\ runs' = [runs EXCEPT ![i].pc = "build"]
              /\ status' = "Building transfer instructions..."
              /\ lastFailure' = IF outcome = "fail"
                                  THEN Failure("transfer.switchChain", FALSE)
                                  ELSE NoFailure
    /\ NoBalanceStep
    /\ NoAlert
    /\ NoFormStep
    /\ UNCHANGED <<pageVars, authVars, account, walletClient, meeVars, meeScanLink,
                   recipients, inits>>
    /\ NoSignerCall /\ NoQuoteRequest

RunAddChain ==
  \E i \in DOMAIN runs, ok \in BOOLEAN :
    /\ runs[i].pc = "addChain"
    /\ IF ok
         THEN /\ RunAfterSwitch(i)
              /\ (UNCHANGED <<status>> /\ NoFailedStep)
         ELSE RunFails(i, "transfer.addChain", "Error: msg")
    /\ NoBalanceStep
    /\ NoAlert
    /\ NoFormStep
    /\ UNCHANGED <<pageVars, authVars, account, walletClient, meeVars, meeScanLink,
                   recipients, inits>>
    /\ NoSignerCall /\ NoQuoteRequest

Transfer(recipient) == [to |-> recipient, amount |-> TRANSFER_AMOUNT]

\* validRecipients.map((recipient) => orchestrator.buildComposable(...))
Transfers(run) ==
  LET validRecipients == ValidRecipients(run.recipients) IN
  [k \in DOMAIN validRecipients |-> Transfer(validRecipients[k])]

MutPromiseAllSettled(values, rejected) ==
  LET index == [k \in DOMAIN values |-> k]
      kept == SelectSeq(index, LAMBDA k : k \notin rejected)
  IN [ok |-> kept # <<>>, values |-> [j \in DOMAIN kept |-> values[kept[j]]]]

\* await Promise.all(promises): the values of all promises, in order, when every
\* one resolves; a rejection when the promises at the positions rejected reject
PromiseAll(values, rejected) ==
  IF rejected = {} THEN [ok |-> TRUE, values |-> values]
  ELSE [ok |-> FALSE, values |-> <<>>]

\* the argument of getFusionQuote, from the transfers Promise.all resolved to
QuoteRequest(run, transfers) ==
  [instructions |-> transfers, trigger |-> Len(transfers) * TRANSFER_AMOUNT,
   signer |-> run.mee, wallet |-> session, recipients |-> run.recipients]

\* await Promise.all(validRecipients.map(buildComposable)), then getFusionQuote
\* is called
RunBuild ==
  \E i \in DOMAIN runs :
    \E rejected \in SUBSET DOMAIN Transfers(runs[i]) :
    LET transfers == PromiseAll(Transfers(runs[i]), rejected) IN
    /\ runs[i].pc = "build"
    /\ IF transfers.ok
         THEN /\ runs' = [runs EXCEPT ![i].pc = "quote"]
              /\ status' = IF page = "metamask" THEN status
                           ELSE "Simulating & requesting Fusion Quote..."
              /\ lastQuote' = QuoteRequest(runs[i], transfers.values)
              /\ NoFailedStep
         ELSE /\ RunFails(i, "transfer.buildComposable", "Error: msg")
              /\ NoQuoteRequest
    /\ NoBalanceStep
    /\ NoAlert
    /\ NoFormStep
    /\ UNCHANGED <<pageVars, authVars, account, walletClient, meeVars, meeScanLink,
                   recipients, inits>>
    /\ NoSignerCall

\* await meeClient.getFusionQuote(...), then executeFusionQuote is called
RunQuote ==
  \E i \in DOMAIN runs, ok \in BOOLEAN, fusionQuote \in QuoteIds :
    /\ runs[i].pc = "quote"
    /\ IF ok
         THEN /\ runs' = [runs EXCEPT ![i].pc = "execute",
                                      ![i].fusionQuote = fusionQuote,
                                      ![i].executing = ExecuteArg(fusionQuote)]
              /\ status' = IF page = "metamask" THEN status ELSE "Awaiting signature..."
              /\ NoFailedStep
         ELSE RunFails(i, "transfer.getFusionQuote", "Error: msg")
    /\ NoBalanceStep
    /\ NoAlert
    /\ NoFormStep
    /\ UNCHANGED <<pageVars, authVars, account, walletClient, meeVars, meeScanLink,
                   recipients, inits>>
    /\ NoSignerCall /\ NoQuoteRequest

FusionMessage == MsgRawBytes(<<10, 255>>)
FusionTypedData == TypedData(JNum(8453), JBig(120), JStr(<<"7">>))

\* await meeClient.executeFusionQuote({fusionQuote}): the client has the signer
\* of its account sign the quote, then submits it
RunExecute ==
  \E i \in DOMAIN runs, typed \in BOOLEAN, submitted \in BOOLEAN :
    \E resp \in ProviderResponses(session, runs[i].mee), hash \in HashIds :
    LET signer == Signer(page, runs[i].mee)
        call == IF typed THEN SignTypedDataCall(signer, FusionTypedData, resp)
                ELSE SignMessageCall(signer, FusionMessage, resp)
    IN
    /\ runs[i].pc = "execute"
    /\ lastCall' = call
    /\ IF call.result.ok /\ submitted
         THEN /\ runs' = [runs EXCEPT ![i].pc = "receipt",
                                      ![i].hash = hash,
                                      ![i].waiting = ReceiptArg(hash)]
              /\ meeScanLink' = TRUE
              /\ status' = IF page = "metamask" THEN status
                           ELSE "Waiting for confirmation..."
              /\ NoFailedStep
         ELSE /\ RunFails(i, "transfer.executeFusionQuote",
                          IF call.result.ok THEN "Error: msg"
                          ELSE "Error: signing failed")
              /\ UNCHANGED meeScanLink
    /\ NoBalanceStep
    /\ NoAlert
    /\ NoFormStep
    /\ UNCHANGED <<pageVars, authVars, account, walletClient, meeVars, recipients,
                   inits>>
    /\ NoQuoteRequest

\* await meeClient.waitForSupertransactionReceipt({hash})
RunReceipt ==
  \E i \in DOMAIN runs, ok \in BOOLEAN :
    /\ runs[i].pc = "receipt"
    /\ IF ok
         THEN /\ runs' = RemoveAt(runs, i)
              /\ status' = IF page = "metamask" THEN status ELSE "Transaction confirmed!"
              /\ NoFailedStep
         ELSE RunFails(i, "transfer.waitForSupertransactionReceipt", "Error: msg")
    /\ NoBalanceStep
    /\ NoAlert
    /\ NoFormStep
    /\ UNCHANGED <<pageVars, authVars, account, walletClient, meeVars, meeScanLink,
                   recipients, inits>>
    /\ NoSignerCall /\ NoQuoteRequest

\* ------------------------------------------------- balance polling, teardown
\* a timer set by setInterval(fetchBalance, 10000) fires
BalanceTick ==
  \E k \in DOMAIN intervals :
    /\ FetchBalance(intervals[k])
    /\ NoAlert
    /\ NoFormStep
    /\ UNCHANGED <<pageVars, authVars, account, walletClient, meeVars, status,
                   meeScanLink, recipients, inits, runs, balance, intervals>>
    /\ NoSignerCall /\ NoQuoteRequest /\ NoFailedStep

FetchOutcomes == {"ok", "noResult", "badJson", "networkError"}

MutBalanceAfterClears(a, outcome, amount) ==
  IF outcome = "ok" /\ Mounted THEN Balance(a, amount) ELSE NoBalance

\* if (data.result) setBalance(BigInt(data.result)); a state update of a
\* component that is no longer mounted is dropped
BalanceAfter(a, outcome, amount) ==
  IF outcome = "ok" /\ Mounted THEN Balance(a, amount) ELSE balance

\* await fetch(...) / await response.json() of a fetchBalance call return
BalanceResponse ==
  \E a \in fetches, outcome \in FetchOutcomes, amount \in BalanceAmounts :
    /\ fetches' = fetches \ {a}
    /\ balance' = BalanceAfter(a, outcome, amount)
    /\ lastFailure' = IF outcome = "ok" THEN NoFailure
                      ELSE Failure("balance." \o outcome, FALSE)
    /\ lastFetch' = Null
    /\ NoAlert
    /\ NoFormStep
    /\ UNCHANGED <<pageVars, authVars, account, walletClient, meeVars, status,
                   meeScanLink, recipients, inits, runs, intervals>>
    /\ NoSignerCall /\ NoQuoteRequest

\* the user follows a Navbar link to another page: the page is unmounted and
\* the clean-up of its balance effect runs
Unmount ==
  /\ Mounted
  /\ view' = "unmounted"
  /\ intervals' = Cleanup(intervals)
  /\ lastFetch' = Null
  /\ NoAlert
  /\ NoFormStep
  /\ UNCHANGED <<page, ethereum, envKey, authVars, account, walletClient, meeVars,
                 status, meeScanLink, recipients, inits, runs, balance, fetches>>
  /\ NoSignerCall /\ NoQuoteRequest /\ NoFailedStep

\* ------------------------------------------------------- Privy login form
Emails == {"", "a@b.c", "d@e.f"}
Codes == {"", "123456", "654321"}

\* useState(''), useState(''), useState(false); no sendCode or loginWithCode
\* call in flight
EmptyForm == [email |-> "", code |-> "", codeSent |-> FALSE, pending |-> {}]

\* the sign-in card is rendered: {!authenticated ? ...}
FormShown == Mounted /\ page = "privy" /\ ~connected

\* the step is an event of the login form and touches nothing else
FormStepOnly ==
  /\ NoBalanceStep
  /\ NoAlert
  /\ UNCHANGED <<pageVars, account, walletClient, meeVars, meeScanLink, recipients,
                 inits, runs>>
  /\ NoSignerCall /\ NoQuoteRequest

\* onChange of the email input, disabled once the code is sent
setEmail ==
  \E value \in Emails :
    /\ FormShown
    /\ ~loginForm.codeSent
    /\ loginForm' = [loginForm EXCEPT !.email = value]
    /\ UNCHANGED <<authVars, status>>
    /\ NoFailedStep
    /\ FormStepOnly

\* onChange of the code input, rendered once the code is sent
setCode ==
  \E value \in Codes :
    /\ FormShown
    /\ loginForm.codeSent
    /\ loginForm' = [loginForm EXCEPT !.code = value]
    /\ UNCHANGED <<authVars, status>>
    /\ NoFailedStep
    /\ FormStepOnly

\* click on Send Code: handleSendCode up to await sendCode({ email }); one call
\* in flight at a time
handleSendCode ==
  /\ FormShown
  /\ ~loginForm.codeSent
  /\ loginForm.email # ""
  /\ "sendCode" \notin loginForm.pending
  /\ status' = "Sending code..."
  /\ loginForm' = [loginForm EXCEPT !.pending = @ \cup {"sendCode"}]
  /\ UNCHANGED authVars
  /\ NoFailedStep
  /\ FormStepOnly

\* setCodeSent(true) after sendCode resolved; the catch block leaves codeSent
CodeSentAfter(ok) == IF ok THEN TRUE ELSE loginForm.codeSent

\* await sendCode({ email }) returns or throws
SendCodeReturns ==
  \E ok \in BOOLEAN :
    /\ Mounted
    /\ "sendCode" \in loginForm.pending
    /\ loginForm' = [loginForm EXCEPT !.pending = @ \ {"sendCode"},
                                      !.codeSent = CodeSentAfter(ok)]
    /\ status' = IF ok THEN "Code sent! Check your email." ELSE "Error: msg"
    /\ lastFailure' = IF ok THEN NoFailure ELSE Failure("login.sendCode", TRUE)
    /\ UNCHANGED authVars
    /\ FormStepOnly

\* click on Verify & Login: handleLogin up to await loginWithCode({ code })
handleLogin ==
  /\ FormShown
  /\ loginForm.codeSent
  /\ loginForm.code # ""
  /\ "loginWithCode" \notin loginForm.pending
  /\ status' = "Verifying code..."
  /\ loginForm' = [loginForm EXCEPT !.pending = @ \cup {"loginWithCode"}]
  /\ UNCHANGED authVars
  /\ NoFailedStep
  /\ FormStepOnly

\* await loginWithCode({ code }) returns or throws; on success the provider
\* reports the user as authenticated, the embedded wallet is not listed yet
LoginWithCodeReturns ==
  \E ok \in BOOLEAN, a \in Addrs :
    /\ Mounted
    /\ "loginWithCode" \in loginForm.pending
    /\ loginForm' = [loginForm EXCEPT !.pending = @ \ {"loginWithCode"}]
    /\ IF ok /\ ~connected
         THEN /\ session' = a
              /\ connected' = TRUE
              /\ wallet' = Null
              /\ UNCHANGED isEth
              /\ status' = Null
              /\ NoFailedStep
         ELSE /\ UNCHANGED authVars
              /\ status' = "Error: msg"
              /\ lastFailure' = Failure("login.loginWithCode", TRUE)
    /\ FormStepOnly

\* click on Use Different Email
useDifferentEmail ==
  /\ FormShown
  /\ loginForm.codeSent
  /\ loginForm' = [loginForm EXCEPT !.codeSent = FALSE, !.code = ""]
  /\ status' = Null
  /\ UNCHANGED authVars
  /\ NoFailedStep
  /\ FormStepOnly

\* ------------------------------------------------------------ specification
\* PrivyExample / ParaExample / DynamicExample: without the environment key
\* the Configuration Required panel is returned instead of the provider and the
\* wallet component.  ParaExample constructs its Para client with the key or ''
\* when the module is loaded, before that check; what the constructor does
\* with '' is the SDK's choice.
ViewsAfterMount ==
  IF envKey THEN {"wallet"}
  ELSE IF page = "para" THEN {"configError", "crashed"}
  ELSE {"configError"}

\* a page after it is mounted
Init ==
  /\ page \in Pages
  /\ ethereum \in (IF page = "metamask" THEN BOOLEAN ELSE {FALSE})
  /\ envKey \in (IF page = "metamask" THEN {TRUE} ELSE BOOLEAN)
  /\ view \in ViewsAfterMount
  /\ session \in (IF ethereum THEN Addrs ELSE {Null})
  /\ connected = FALSE
  /\ wallet = Null
  /\ isEth = TRUE
  /\ account = Null
  /\ walletClient = FALSE
  /\ orchestrator = Null
  /\ meeClient = Null
  /\ status = Null
  /\ meeScanLink = FALSE
  /\ recipients = <<<<>>>>
  /\ inits = <<>>
  /\ runs = <<>>
  /\ lastCall = NoCall
  /\ lastQuote = NoQuote
  /\ lastFailure = NoFailure
  /\ balance = NoBalance
  /\ intervals = (IF Mounted /\ page # "metamask" THEN <<Null>> ELSE <<>>)
  /\ fetches = {}
  /\ lastFetch = Null
  /\ lastAlert = Null
  /\ loginForm = EmptyForm

\* the session life cycle of a page, with one recipient entry
Next ==
  \/ Login
  \/ WalletReady
  \/ Logout
  \/ WalletChange
  \/ connectAndInit
  \/ InitSwitchChain
  \/ InitAddChain
  \/ InitGetSigner
  \/ InitNexus
  \/ InitClient
  \/ handleRecipientChange
  \/ executeTransfers
  \/ RunSwitchChain
  \/ RunAddChain
  \/ RunBuild
  \/ RunQuote
  \/ RunExecute
  \/ RunReceipt

Spec == Init /\ [][Next]_vars

\* a page whose MEE client is initialised for the connected wallet
ReadyInit ==
  /\ page \in Pages
  /\ ethereum = (page = "metamask")
  /\ envKey = TRUE
  /\ view = "wallet"
  /\ session \in Addrs
  /\ connected = (page # "metamask")
  /\ wallet = (IF page = "metamask" THEN Null ELSE session)
  /\ isEth = TRUE
  /\ account = (IF page = "metamask" THEN session ELSE Null)
  /\ walletClient = (page = "metamask")
  /\ orchestrator = session
  /\ meeClient = session
  /\ status = Null
  /\ meeScanLink = FALSE
  /\ recipients = <<<<>>>>
  /\ inits = <<>>
  /\ runs = <<>>
  /\ lastCall = NoCall
  /\ lastQuote = NoQuote
  /\ lastFailure = NoFailure
  /\ balance = NoBalance
  /\ intervals = (IF page = "metamask" THEN <<>> ELSE <<session>>)
  /\ fetches = {}
  /\ lastFetch = Null
  /\ lastAlert = Null
  /\ loginForm = EmptyForm

\* the account factory's client calls the signer with arbitrary inputs
AdapterNext == signMessage \/ signTypedData \/ signTransaction

SpecAdapter == ReadyInit /\ [][AdapterNext]_vars

\* the Quick Transfer card of an initialised page
TransfersNext ==
  \/ handleRecipientChange
  \/ addRecipient
  \/ removeRecipient
  \/ executeTransfers
  \/ RunSwitchChain
  \/ RunAddChain
  \/ RunBuild
  \/ RunQuote
  \/ RunExecute
  \/ RunReceipt

SpecTransfers == ReadyInit /\ [][TransfersNext]_vars

\* the Quick Transfer card of an initialised page with one recipient entry
RunsNext ==
  \/ handleRecipientChange
  \/ executeTransfers
  \/ RunSwitchChain
  \/ RunAddChain
  \/ RunBuild
  \/ RunQuote
  \/ RunExecute
  \/ RunReceipt

SpecRuns == ReadyInit /\ [][RunsNext]_vars

\* an await of a run in flight returns or throws
RunStep ==
  \/ RunSwitchChain
  \/ RunAddChain
  \/ RunBuild
  \/ RunQuote
  \/ RunExecute
  \/ RunReceipt

\* the Quick Transfer card when every external call a run awaits is answered
SpecRunsFair == SpecRuns /\ WF_vars(RunStep)

\* the wallet card of an initialised page: sessions, balance polling, teardown
BalanceNext ==
  \/ Login
  \/ WalletReady
  \/ Logout
  \/ WalletChange
  \/ BalanceTick
  \/ BalanceResponse
  \/ Unmount

SpecBalance == ReadyInit /\ [][BalanceNext]_vars

\* the Privy page from mount: the email login form and Sign Out
LoginInit == Init /\ page = "privy" /\ Mounted

LoginNext ==
  \/ setEmail
  \/ handleSendCode
  \/ SendCodeReturns
  \/ setCode
  \/ handleLogin
  \/ LoginWithCodeReturns
  \/ useDifferentEmail
  \/ Logout

SpecLogin == LoginInit /\ [][LoginNext]_vars

\* the MetaMask page from mount: connection, initialisation and transfers
MetaMaskInit == Init /\ page = "metamask"

MetaMaskNext ==
  \/ WalletChange
  \/ connectAndInit
  \/ InitSwitchChain
  \/ InitAddChain
  \/ InitGetSigner
  \/ InitNexus
  \/ InitClient
  \/ handleRecipientChange
  \/ executeTransfers
  \/ RunSwitchChain
  \/ RunAddChain
  \/ RunBuild
  \/ RunQuote
  \/ RunExecute
  \/ RunReceipt

SpecMetaMask == MetaMaskInit /\ [][MetaMaskNext]_vars

\* ------------------------------------------------------------------ claims
IsSigning == lastCall.op \in {"signMessage", "signTypedData"}
ByAdapter == lastCall.signer.kind \in AdapterPages

\* C1: a signMessage or signTypedData call on a Privy or Dynamic adapter made
\* while the provider session's address differs from the captured address fails
\* with SessionExpired and returns no signature
C1_StaleSessionFails ==
  (IsSigning /\ ByAdapter /\ lastCall.session # lastCall.signer.address)
    => (~lastCall.result.ok /\ lastCall.result.err = "SessionExpired")

\* C2: while meeClient / orchestrator are set, the address of their signer is
\* the authenticated wallet address, and no getFusionQuote request is made
\* with a signer bound to another address than the connected wallet
C2_SignerMatchesWallet ==
  /\ (meeClient # Null /\ session # Null) => meeClient = session
  /\ (orchestrator # Null /\ session # Null) => orchestrator = session
  /\ lastQuote # NoQuote => lastQuote.signer = lastQuote.wallet

\* C3: once the user has logged out or disconnected, orchestrator and
\* meeClient are null
C3_DiscardedOnLogout ==
  (page # "metamask" /\ ~connected) => (orchestrator = Null /\ meeClient = Null)

\* the connected address an initialisation in flight is for
InitAddress(task) == IF page = "metamask" THEN task.signer ELSE task.wallet
InitsFor(a) == Cardinality({i \in DOMAIN inits : InitAddress(inits[i]) = a})

\* C4: for one connected address no second initialisation is under way while
\* one is in flight or after one has succeeded
C4_InitAtMostOnce ==
  \A a \in Addrs : InitsFor(a) + (IF meeClient = a THEN 1 ELSE 0) <= 1

\* empty or whitespace only
IsBlank(r) == \A k \in DOMAIN r : r[k] = " "
NonBlank(rs) == SelectSeq(rs, LAMBDA r : ~IsBlank(r))

\* C5: a getFusionQuote request carries one transfer of 100000 per non-blank
\* recipient, in list order, and a trigger amount of N * 100000
C5_OneTransferPerNonBlank ==
  LET nonBlank == NonBlank(lastQuote.recipients) IN
  (lastQuote # NoQuote /\ Len(nonBlank) >= 1)
    => /\ lastQuote.instructions =
            [k \in DOMAIN nonBlank |-> [to |-> nonBlank[k], amount |-> 100000]]
       /\ lastQuote.trigger = Len(nonBlank) * 100000

SignTransactionRefused ==
  /\ lastCall.result = Unsupported
  /\ lastCall.request = NoReq
  /\ lastCall.resp = NoResult

\* C6 as stated: signTransaction of every signer a page hands to the account
\* factory fails as unsupported and sends nothing to the provider
C6_EverySignerRefuses == lastCall.op = "signTransaction" => SignTransactionRefused

\* C6 amended: signTransaction of the Privy and Dynamic adapters fails as
\* unsupported and sends nothing to the provider; the Para account and the
\* MetaMask wallet client forward it
C6_AdaptersRefuse ==
  lastCall.op = "signTransaction"
    => IF ByAdapter THEN SignTransactionRefused
       ELSE lastCall.request.method = "account.signTransaction"
            /\ lastCall.result = lastCall.resp

C6_Witness ==
  lastCall.op = "signTransaction" /\ lastCall.signer.kind = "dynamic"
    /\ lastCall.result = Unsupported

HexValue(c) == CHOOSE d \in 0..15 : HexChars[d + 1] = c

\* str is "0x" followed by two hex digits for each byte, in order
IsHexOf(str, bytes) ==
  /\ Len(str) = 2 + 2 * Len(bytes)
  /\ SubSeq(str, 1, 2) = <<"0", "x">>
  /\ \A k \in DOMAIN bytes :
       /\ str[2 * k + 1] \in Range(HexChars)
       /\ str[2 * k + 2] \in Range(HexChars)
       /\ 16 * HexValue(str[2 * k + 1]) + HexValue(str[2 * k + 2]) = bytes[k]

RawBytesCall == lastCall.op = "signMessage" /\ lastCall.message.kind = "rawBytes"

\* C8 as stated: signMessage of {raw: bytes} on either adapter forwards the
\* 0x-prefixed hex encoding of the bytes, not the bytes object
C8_RawBytesHexEncoded ==
  (RawBytesCall /\ ByAdapter)
    => /\ lastCall.request.msg.kind = "string"
       /\ IsHexOf(lastCall.request.msg.str, lastCall.message.bytes)

\* C8 amended: the Privy adapter forwards the 0x-prefixed hex encoding of the
\* bytes; the Dynamic adapter hands the {raw: bytes} object to
\* walletClient.signMessage as it is
C8_PrivyRawBytesHexEncoded ==
  /\ (RawBytesCall /\ lastCall.signer.kind = "privy")
       => /\ lastCall.request.msg.kind = "string"
          /\ IsHexOf(lastCall.request.msg.str, lastCall.message.bytes)
  /\ (RawBytesCall /\ lastCall.signer.kind = "dynamic")
       => lastCall.request.msg = lastCall.message

C8_Witness ==
  /\ RawBytesCall
  /\ lastCall.signer.kind = "privy"
  /\ lastCall.message.bytes = <<10, 255>>
  /\ lastCall.request.msg.str = <<"0", "x", "0", "a", "f", "f">>

RECURSIVE HasBigint(_)
HasBigint(v) ==
  \/ v.t = "bigint"
  \/ \E k \in DOMAIN v.kids : HasBigint(v.kids[k].v)

\* the JSON text of a leaf: a bigint as its quoted base-10 digits, a number
\* bare, a string quoted
LeafText(v) ==
  CASE v.t = "bigint" -> <<"\"">> \o Decimal(v.n) \o <<"\"">>
    [] v.t = "number" -> Decimal(v.n)
    [] v.t = "string" -> <<"\"">> \o v.s \o <<"\"">>

Key(k) == <<"\"", k, "\"", ":">>

\* {"domain":{"chainId":c},"primaryType":"P","message":{"amount":x,"list":[y]}}
ExpectedText(c, x, y) ==
  <<"{">> \o Key("domain") \o <<"{">> \o Key("chainId") \o LeafText(c) \o <<"}", ",">>
  \o Key("primaryType") \o <<"\"", "P", "\"", ",">>
  \o Key("message") \o <<"{">> \o Key("amount") \o LeafText(x) \o <<",">>
  \o Key("list") \o <<"[">> \o LeafText(y) \o <<"]", "}", "}">>

SerializedWithDecimalStrings ==
  \A c \in ChainIdValues, x \in LeafValues, y \in LeafValues :
    lastCall.typedData = TypedData(c, x, y)
      => lastCall.request.text = ExpectedText(c, x, y)

BigintCall == lastCall.op = "signTypedData" /\ HasBigint(lastCall.typedData)

\* C9 as stated: signTypedData of a payload with a bigint on either adapter
\* sends a serialisation with every bigint as its base-10 string and every
\* other field unchanged
C9_BigintsSerialized ==
  (BigintCall /\ ByAdapter)
    => /\ lastCall.request.obj = JNull
       /\ SerializedWithDecimalStrings

\* C9 amended: the Privy adapter sends that serialisation; the Dynamic adapter
\* hands the payload, its bigints included, to walletClient.signTypedData
C9_PrivyBigintsSerialized ==
  /\ (BigintCall /\ lastCall.signer.kind = "privy")
       => /\ lastCall.request.obj = JNull
          /\ SerializedWithDecimalStrings
  /\ (BigintCall /\ lastCall.signer.kind = "dynamic")
       => /\ lastCall.request.obj = lastCall.typedData
          /\ lastCall.request.text = <<>>

C9_Witness ==
  /\ BigintCall
  /\ lastCall.signer.kind = "privy"
  /\ lastCall.typedData = TypedData(JBig(8453), JBig(-35), JNum(7))
  /\ lastCall.request.text = ExpectedText(JStr(<<"8", "4", "5", "3">>),
                                          JStr(<<"-", "3", "5">>), JNum(7))
  /\ lastCall.result.ok

\* C10: the handler of every failed asynchronous step sets the status text
C10_FailuresShown == lastFailure # NoFailure => lastFailure.shown

\* a signing request made by executeFusionQuote in this step was refused
SigningRefused == lastCall' # NoCall /\ ~lastCall'.result.ok

\* C11: when a signing request of executeFusionQuote is rejected or the session
\* is invalid, the run ends with status 'Error: <message>', orchestrator and
\* meeClient stay as they are and Pay Now stays enabled
C11_SigningFailureShown ==
  [][SigningRefused
       => /\ status' = "Error: signing failed"
          /\ UNCHANGED meeVars
          /\ meeClient' # Null]_vars

\* C12: while an executeTransfers run is in flight no second run can start: a
\* click on Pay Now is not possible or is turned away by the handler
C12_OneRunAtATime == runs # <<>> => ~StartsRun

\* C13: at most one polling timer is active; while a wallet address is present
\* the timer is the one of that address and a change of the address starts a
\* fetch for it at once; no fetch is started for an old address or after the
\* page is torn down, when no timer is left
C13_OnePollPerAddress ==
  /\ [](Len(intervals) <= 1)
  /\ []((Mounted /\ wallet # Null) => intervals = <<wallet>>)
  /\ [](~Mounted => intervals = <<>>)
  /\ [](lastFetch # Null => (Mounted /\ lastFetch = wallet))
  /\ [][(wallet' # wallet /\ wallet' # Null) => lastFetch' = wallet']_vars

C13_Witness ==
  /\ lastFetch = "0xB"
  /\ intervals = <<"0xB">>
  /\ fetches = {"0xA", "0xB"}

\* a balance fetch failed in this step
BalanceFetchFailed ==
  lastFailure'.step \in {"balance.noResult", "balance.badJson", "balance.networkError"}

\* C14: a failed balance fetch leaves balance and every other state of the
\* page as they were and starts no new fetch
C14_FailedFetchKeepsBalance ==
  [][BalanceFetchFailed
       => /\ UNCHANGED <<balance, intervals, status, meeScanLink, recipients,
                         orchestrator, meeClient, session, connected, wallet,
                         account, walletClient, inits, runs, view>>
          /\ lastFetch' = Null
          /\ fetches' \subseteq fetches]_vars

C14_Witness ==
  /\ lastFailure.step = "balance.networkError"
  /\ balance = Balance("0xA", 5)
  /\ wallet = "0xA"

BuiltPcs == {"build", "quote", "execute", "receipt"}

\* C16: a run builds no transfer instruction for an empty or whitespace-only
\* recipient entry, and is not building, quoting or executing anything when
\* every entry is blank
C16_NoBlankInstruction ==
  \A i \in DOMAIN runs :
    runs[i].pc \in BuiltPcs
      => /\ Transfers(runs[i]) # <<>>
         /\ \A k \in DOMAIN Transfers(runs[i]) : ~IsBlank(Transfers(runs[i])[k].to)

\* the positions a run can move to from position pc
PcsAfter(pc) ==
  CASE pc = "switchChain" -> {"addChain", "build"}
    [] pc = "addChain" -> {"build"}
    [] pc = "build" -> {"quote"}
    [] pc = "quote" -> {"execute"}
    [] pc = "execute" -> {"receipt"}
    [] OTHER -> {}

\* a call of the MEE client or of the orchestrator failed in this step
ClientCallFailed ==
  lastFailure'.step \in {"transfer.buildComposable", "transfer.getFusionQuote",
                         "transfer.executeFusionQuote",
                         "transfer.waitForSupertransactionReceipt"}

\* what a step does to the runs: nothing, a new run at its first await, one run
\* one position further, or one run ended
RunsInOrder ==
  \/ runs' = runs
  \/ /\ Len(runs') = Len(runs) + 1
     /\ SubSeq(runs', 1, Len(runs)) = runs
     /\ runs'[Len(runs')].pc \in {"switchChain", "build"}
  \/ \E i \in DOMAIN runs :
       /\ Len(runs') = Len(runs)
       /\ \A j \in DOMAIN runs : j # i => runs'[j] = runs[j]
       /\ runs'[i].pc \in PcsAfter(runs[i].pc)
       /\ ~ClientCallFailed
  \/ \E i \in DOMAIN runs : runs' = RemoveAt(runs, i)

\* C17: a run calls buildComposable, getFusionQuote, executeFusionQuote and
\* waitForSupertransactionReceipt in that order, executes the quote its own
\* getFusionQuote returned, waits for the hash its own executeFusionQuote
\* returned, and makes no later call once one has failed
C17_ClientCallsInOrder ==
  /\ [][RunsInOrder]_vars
  /\ [][ClientCallFailed => Len(runs') < Len(runs)]_vars
  /\ [](\A i \in DOMAIN runs :
          /\ runs[i].pc \in {"execute", "receipt"}
               => (runs[i].fusionQuote \in QuoteIds
                   /\ runs[i].executing = runs[i].fusionQuote)
          /\ runs[i].pc = "receipt"
               => (runs[i].hash \in HashIds /\ runs[i].waiting = runs[i].hash)
          /\ runs[i].pc \notin {"execute", "receipt"} => runs[i].executing = 0
          /\ runs[i].pc # "receipt" => runs[i].waiting = 0)

C17_Witness ==
  \E i \in DOMAIN runs :
    /\ runs[i].pc = "receipt"
    /\ runs[i].fusionQuote = 2 /\ runs[i].executing = 2
    /\ runs[i].hash = 1 /\ runs[i].waiting = 1

\* an initialisation attempt failed in this step
InitFailed ==
  lastFailure'.step \in {"init.switchChain", "init.addChain", "init.getSigner",
                         "init.toMultichainNexusAccount", "init.createMeeClient"}

PcRank(pc) ==
  CASE pc = "switchChain" -> 0
    [] pc = "addChain" -> 1
    [] pc = "build" -> 2
    [] pc = "quote" -> 3
    [] pc = "execute" -> 4
    [] pc = "receipt" -> 5

\* C18: a failed initialisation starts no new one, a new initialisation starts
\* only when the wallet address or the connection flag changes (on the MetaMask
\* page: on a click of Connect Wallet), and a run never goes back to a call it
\* has made
C18_NoLocalRetry ==
  /\ [][InitFailed => Len(inits') < Len(inits)]_vars
  /\ [][Len(inits') > Len(inits)
          => \/ wallet' # wallet
             \/ connected' # connected
             \/ (page = "metamask" /\ account = Null)]_vars
  /\ [][Len(runs') = Len(runs)
          => \A i \in DOMAIN runs :
               runs'[i] = runs[i] \/ PcRank(runs'[i].pc) > PcRank(runs[i].pc)]_vars

C18_Witness ==
  /\ lastFailure.step = "init.createMeeClient"
  /\ inits = <<>>
  /\ wallet # Null /\ connected
  /\ orchestrator # Null /\ meeClient = Null

\* the chain switch of a run / of an initialisation failed in this step
SwitchFailedInRun == lastFailure'.step = "transfer.switchChain"
SwitchFailedInInit == lastFailure'.step \in {"init.switchChain", "init.switchNetwork"}

RunGoesOnToBuild ==
  \E i \in DOMAIN runs :
    runs[i].pc = "switchChain" /\ runs' = [runs EXCEPT ![i].pc = "build"]

InitGoesOnToSigner ==
  \E i \in DOMAIN inits :
    inits[i].pc = "switchChain" /\ inits' = [inits EXCEPT ![i].pc = "getSigner"]

\* C19: on the Privy and Dynamic pages a failed chain switch is not fatal: the
\* run goes on to build its instructions and the initialisation goes on to
\* create its signer, as after a successful switch
C19_SwitchFailureNonFatal ==
  [][(page \in AdapterPages)
       => ((SwitchFailedInRun => RunGoesOnToBuild)
           /\ (SwitchFailedInInit => InitGoesOnToSigner))]_vars

C21_NoProviderNoConnect ==
  /\ []((page = "metamask" /\ ~ethereum)
          => /\ account = Null /\ ~walletClient
             /\ orchestrator = Null /\ meeClient = Null
             /\ inits = <<>>)
  /\ [][(connectAndInit /\ ~ethereum)
          => (/\ lastAlert' = "MetaMask not detected"
              /\ UNCHANGED <<account, walletClient, meeVars, inits, runs, status>>
              /\ lastCall' = NoCall)]_vars

C21_Witness ==
  /\ page = "metamask"
  /\ ~ethereum
  /\ lastAlert = "MetaMask not detected"

\* C22: a quote is requested only with an instruction for every non-blank
\* recipient of the run; when buildComposable fails for a recipient the run
\* ends without a quote request and without a signer call
C22_AllOrNothing ==
  [][/\ (lastQuote' # NoQuote
          => \A k \in DOMAIN lastQuote'.recipients :
               ~IsBlank(lastQuote'.recipients[k])
                 => \E j \in DOMAIN lastQuote'.instructions :
                      lastQuote'.instructions[j].to = lastQuote'.recipients[k])
     /\ (lastQuote' # NoQuote
          => Len(lastQuote'.instructions) >= Len(NonBlank(lastQuote'.recipients)))
     /\ (lastFailure'.step = "transfer.buildComposable"
          => /\ lastQuote' = NoQuote
             /\ lastCall' = NoCall
             /\ Len(runs') < Len(runs)
             /\ UNCHANGED meeScanLink)]_vars

C22_Witness ==
  /\ lastFailure.step = "transfer.buildComposable"
  /\ Len(NonBlank(recipients)) = 2
  /\ runs = <<>>

\* the texts beginning 'Error:' that setStatus is called with
ErrorStatuses ==
  {"Error: msg", "Error: signing failed",
   "Error: MEE client not initialized. Please wait...",
   "Error: Please add at least one recipient."}

\* C23: the 'Payment Successful!' banner is visible only when no run is still
\* waiting for its receipt and the status is not an 'Error: ...' text
C23_BannerOnlyWhenConfirmed ==
  meeScanLink => (runs = <<>> /\ status \notin ErrorStatuses)

\* C24: while a wallet is connected, the balance the page holds was fetched for
\* the address of that wallet
C24_BalanceOfCurrentWallet ==
  (page # "metamask" /\ wallet # Null /\ balance # NoBalance)
    => balance.addr = wallet

\* C25: whenever the page holds an MEE client it holds an orchestrator, and
\* neither is ever cleared once set
C25_ClientImpliesOrchestrator ==
  /\ [](meeClient # Null => orchestrator # Null)
  /\ [][(orchestrator # Null => orchestrator' # Null)
        /\ (meeClient # Null => meeClient' # Null)]_vars

\* createMeeClient failed after the orchestrator was stored, and a client was
\* then set with another initialisation still in flight
C25_Witness ==
  /\ meeClient # Null
  /\ orchestrator # Null
  /\ inits # <<>>

FinalStatuses == {"Transaction confirmed!"} \cup ErrorStatuses

\* the last step ended a run: its receipt arrived or its catch block ran
RunJustEnded ==
  \/ status = "Transaction confirmed!"
  \/ (status \in ErrorStatuses /\ lastFailure.shown)

\* C26: on the Privy, Para and Dynamic pages a run in flight eventually ends,
\* and it ends with the status 'Transaction confirmed!' or an 'Error: ...'
\* text; 'Transaction confirmed!' is set only by the step in which the run's
\* waitForSupertransactionReceipt resolves
C26_RunEndsWithFinalStatus ==
  /\ (page # "metamask" /\ runs # <<>>) ~> (Len(runs) < MaxRuns /\ RunJustEnded)
  /\ [][(page # "metamask" /\ Len(runs') < Len(runs))
          => status' \in FinalStatuses]_vars
  /\ [][(page # "metamask" /\ status' = "Transaction confirmed!"
           /\ status # "Transaction confirmed!")
          => \E i \in DOMAIN runs :
               /\ runs[i].pc = "receipt"
               /\ runs[i].waiting = runs[i].hash
               /\ runs' = RemoveAt(runs, i)]_vars

C26_Witness ==
  /\ page # "metamask"
  /\ runs = <<>>
  /\ status = "Transaction confirmed!"
  /\ meeScanLink

\* C27: a click on Pay Now while the orchestrator, the client or the wallet is
\* missing reports 'not initialized' (as status, on the MetaMask page as an
\* alert), starts no run and no call, and leaves recipients, banner,
\* orchestrator and client as they were
C27_NotInitializedNoCall ==
  [][(executeTransfers /\ NotInitialized)
       => (/\ page # "metamask"
                => status' = "Error: MEE client not initialized. Please wait..."
           /\ page = "metamask" => lastAlert' = "Account not initialized"
           /\ UNCHANGED <<recipients, meeScanLink, meeVars, runs, inits>>
           /\ lastCall' = NoCall
           /\ lastQuote' = NoQuote)]_vars

C27_Witness ==
  /\ status = "Error: MEE client not initialized. Please wait..."
  /\ meeClient # Null
  /\ wallet = Null
  /\ runs = <<>>

\* C28: codeSent becomes true only in the step in which sendCode resolves; a
\* failed sendCode leaves codeSent false and sets an 'Error: ...' status; and
\* when the user signs out the form is at the email-entry step, with codeSent
\* false and the code empty
C28_LoginFormSteps ==
  /\ [][(loginForm'.codeSent /\ ~loginForm.codeSent)
          => (/\ "sendCode" \in loginForm.pending
              /\ status' = "Code sent! Check your email."
              /\ ~connected)]_vars
  /\ [][(lastFailure'.step = "login.sendCode")
          => (~loginForm'.codeSent /\ status' \in ErrorStatuses)]_vars
  /\ [][(connected /\ ~connected')
          => (~loginForm'.codeSent /\ loginForm'.code = "")]_vars

\* C29: the recipients list never becomes empty, and it changes only by the
\* replacement of one entry, by the append of one empty entry, or by the
\* removal of one entry of a list longer than one
C29_RecipientsNeverEmpty ==
  /\ [](Len(recipients) >= 1)
  /\ [][recipients' # recipients
          => \/ /\ Len(recipients') = Len(recipients)
                /\ \E index \in DOMAIN recipients :
                     \A k \in DOMAIN recipients \ {index} :
                       recipients'[k] = recipients[k]
             \/ recipients' = recipients \o <<<<>>>>
             \/ /\ Len(recipients) > 1
                /\ Len(recipients') = Len(recipients) - 1
                /\ \E index \in DOMAIN recipients :
                     /\ \A k \in 1..(index - 1) : recipients'[k] = recipients[k]
                     /\ \A k \in index..Len(recipients') :
                          recipients'[k] = recipients[k + 1]]_vars

C29_Witness ==
  /\ Len(recipients) = 2
  /\ recipients[1] = <<>>
  /\ recipients[2] = <<"x">>

\* wallet_switchEthereumChain failed with code 4902 in this step
Switch4902 ==
  lastFailure'.step \in {"init.switchChain4902", "transfer.switchChain4902"}

\* addBaseToWallet threw in this step: another switch failure, or a failed add
AddBaseRethrown ==
  lastFailure'.step \in {"init.switchChain", "init.addChain",
                         "transfer.switchChain", "transfer.addChain"}

\* an initialisation or a run goes on to the add-chain request
GoesOnToAddChain ==
  \/ \E i \in DOMAIN inits :
       /\ inits[i].pc = "switchChain"
       /\ inits' = [inits EXCEPT ![i].pc = "addChain"]
       /\ runs' = runs
  \/ \E i \in DOMAIN runs :
       /\ runs[i].pc = "switchChain"
       /\ runs' = [runs EXCEPT ![i].pc = "addChain"]
       /\ inits' = inits

\* C30: on the MetaMask page the add-chain request is made if and only if the
\* switch request failed with code 4902; any other switch failure and a failed
\* add request end the initialisation or the run they belong to, with no
\* orchestrator or client created and no instruction built
C30_AddBaseToWallet ==
  /\ [][(page = "metamask" /\ Switch4902) => GoesOnToAddChain]_vars
  /\ [][(page = "metamask" /\ GoesOnToAddChain) => Switch4902]_vars
  /\ [][(page = "metamask" /\ AddBaseRethrown)
          => (/\ Len(inits') < Len(inits) \/ Len(runs') < Len(runs)
              /\ \A i \in DOMAIN inits' : inits'[i] \in Range(inits)
              /\ \A i \in DOMAIN runs' : runs'[i] \in Range(runs)
              /\ UNCHANGED meeVars
              /\ lastQuote' = NoQuote)]_vars

C30_Witness ==
  /\ page = "metamask"
  /\ lastFailure.step = "init.addChain"
  /\ account # Null
  /\ orchestrator = Null
  /\ meeClient = Null

====
